---- MODULE Spec2Model ----
(***************************************************************************)
(* Model of support/metallib_handler.py: the MetallibSupportPkg resolver.  *)
(* One process, the module-level manifest cache METALLIB_ASSET_LIST, the   *)
(* install directory, and the MetalLibraryObject most recently built in    *)
(* the process together with the calls made on it.                         *)
(***************************************************************************)
EXTENDS Integers, Sequences, FiniteSets, TLC

(* ------------------------------ bounds --------------------------------- *)
\* longest manifest the server delivers
MaxManifestLen == 2
\* HTTP GETs the process may send before the model stops constructing
MaxRequests == 2
\* install_metallib calls followed on one object
MaxInstallCalls == 2

(* ----------------------- optional values (None) ------------------------ *)
None == <<>>
Some(x) == <<x>>

(* ------------------------------ domains -------------------------------- *)
\* a version string "15.2" is the sequence of its dotted numbers
HostBuilds == {"24A335", "24C101"}
ManifestBuilds == {"24A335", "24C101"}
HostVersions == {<<14, 0>>, <<15, 1>>, <<15, 2>>, <<26, 0>>}
ManifestVersions == {<<15, 0>>, <<15, 2>>}
Urls == {"", "https://pkg"}
Entries == [build : ManifestBuilds, version : ManifestVersions, url : Urls]
Manifests == UNION {[1..n -> Entries] : n \in 0..MaxManifestLen}

\* the install directory: absent, or a listing of (name, is_dir) children;
\* a child's name "15.1-24A335" is the sequence of its dash-separated parts
NoDir == None
InstallRoots ==
    { NoDir,
      Some(<<>>),
      Some(<<[name |-> <<"15.1", "24A335">>, is_dir |-> TRUE]>>),
      Some(<<[name |-> <<".DS_Store">>, is_dir |-> FALSE],
             [name |-> <<"15.2", "24C101">>, is_dir |-> TRUE]>>) }

OverridePaths == {"", "/tmp/override.pkg"}
InstallArgs == {None, Some("/tmp/given.pkg")}
ExitCodes == {0, 1}
\* the ends of a GET that lines 87-95 turn into None: the three exceptions
\* of the except clause and a status other than 200
FailedOutcomes == {"Timeout", "TooManyRedirects", "ConnectionError", "404"}
\* a 200 whose body results.json() rejects (line 97, outside the try)
RaisingOutcomes == {"JSONDecodeError"}
\* what the network may answer to the manifest GET, with a body among ms
ResponsesWith(ms) ==
    {[outcome |-> o, body |-> <<>>] : o \in FailedOutcomes \cup RaisingOutcomes}
        \cup {[outcome |-> "200", body |-> m] : m \in ms}
Responses == ResponsesWith(Manifests)
\* the answers of a server that publishes at most one package
ShortResponses == ResponsesWith({m \in Manifests : Len(m) <= 1})
NoResponse == [outcome |-> "unsent", body |-> <<>>]

metallib_download_path == "metallib_download_path"

(* -------------------- packaging.version, as it compares ---------------- *)
RECURSIVE StripZeros(_)
StripZeros(r) ==
    IF Len(r) > 0 /\ r[Len(r)] = 0
    THEN StripZeros(SubSeq(r, 1, Len(r) - 1))
    ELSE r

RECURSIVE TupleLess(_, _)
TupleLess(a, b) ==
    IF a = <<>> THEN b # <<>>
    ELSE IF b = <<>> THEN FALSE
    ELSE IF a[1] # b[1] THEN a[1] < b[1]
    ELSE TupleLess(Tail(a), Tail(b))

VersionGT(a, b) == TupleLess(StripZeros(b), StripZeros(a))
VersionLE(a, b) == ~VersionGT(a, b)
Major(v) == IF Len(v) >= 1 THEN v[1] ELSE 0

(* ------------------------ os_data, OS generations ---------------------- *)
sequoia == 24
os_to_kernel(major) == IF major >= 26 THEN major - 1 ELSE major + 9

(* ------------------------------ helpers -------------------------------- *)
\* the first index of a sequence in a set of indices, 0 when there is none
FirstOf(S) == IF S = {} THEN 0 ELSE CHOOSE i \in S : \A j \in S : i <= j

\* Python truthiness of the cached manifest: None and [] are both falsy
Truthy(list) == list # None /\ Len(list[1]) > 0

(* --------------------- MetalLibraryObject.__init__ --------------------- *)
\* the fields as lines 36-57 leave them
NewObject(installer, recovery, host_build, host_version, ignore_installed, passive) ==
    [ installer_environment |-> installer,
      recovery_environment |-> recovery,
      host_build |-> host_build,
      host_version |-> host_version,
      passive |-> passive,
      ignore_installed |-> ignore_installed,
      metallib_already_installed |-> FALSE,
      metallib_installed_path |-> Some(<<>>),
      metallib_url |-> "",
      metallib_url_build |-> "",
      metallib_url_version |-> <<>>,
      metallib_url_is_exactly_match |-> FALSE,
      metallib_closest_match_url |-> "",
      metallib_closest_match_url_build |-> "",
      metallib_closest_match_url_version |-> <<>>,
      success |-> FALSE,
      error_msg |-> <<>> ]

(* ------------------------ _get_remote_metallibs ------------------------ *)
\* outcome and body are what the network answers when a GET is sent
\* _get_remote_metallibs with TooManyRedirects missing from the except clause
GetRemoteMetallibsRedirectsUncaught(list, outcome, body) ==
    IF Truthy(list)
    THEN [ret |-> list, list |-> list, requests |-> 0, raised |-> FALSE]
    ELSE IF outcome \in {"Timeout", "ConnectionError"}
    THEN [ret |-> None, list |-> list, requests |-> 1, raised |-> FALSE]
    ELSE IF outcome \in {"TooManyRedirects"} \cup RaisingOutcomes
    THEN [ret |-> None, list |-> list, requests |-> 1, raised |-> TRUE]
    ELSE IF outcome # "200"
    THEN [ret |-> None, list |-> list, requests |-> 1, raised |-> FALSE]
    ELSE [ret |-> Some(body), list |-> Some(body), requests |-> 1, raised |-> FALSE]

\* raised: an exception leaves the method (nothing catches it up to the caller)
GetRemoteMetallibs(list, outcome, body) ==
    IF Truthy(list)
    THEN [ret |-> list, list |-> list, requests |-> 0, raised |-> FALSE]
    ELSE IF outcome \in {"Timeout", "TooManyRedirects", "ConnectionError"}
    THEN [ret |-> None, list |-> list, requests |-> 1, raised |-> FALSE]
    ELSE IF outcome \in RaisingOutcomes
    THEN [ret |-> None, list |-> list, requests |-> 1, raised |-> TRUE]
    ELSE IF outcome # "200"
    THEN [ret |-> None, list |-> list, requests |-> 1, raised |-> FALSE]
    ELSE [ret |-> Some(body), list |-> Some(body), requests |-> 1, raised |-> FALSE]

(* ---------------------- _local_metallib_installed ---------------------- *)
\* name.endswith("-" + match), for a match without dashes
EndsWithDash(name, match) == Len(name) >= 2 /\ name[Len(name)] = match
\* match in name, for a match that is one of the name's parts
Contains(name, match) == \E i \in 1..Len(name) : name[i] = match

\* the loop of line 186 skipping directories instead of files
FolderPassesFiles(folder, match, check_version) ==
    /\ ~folder.is_dir
    /\ IF check_version
       THEN ~(match # None /\ ~Contains(folder.name, match[1]))
       ELSE ~(match # None /\ ~EndsWithDash(folder.name, match[1]))

FolderPasses(folder, match, check_version) ==
    /\ folder.is_dir
    /\ IF check_version
       THEN ~(match # None /\ ~Contains(folder.name, match[1]))
       ELSE ~(match # None /\ ~EndsWithDash(folder.name, match[1]))

\* the probe without the ignore_installed return of lines 179-180
LocalMetallibInstalledAlways(obj, root, match, check_version) ==
    IF root = NoDir THEN None
    ELSE LET listing == root[1]
             i == FirstOf({k \in 1..Len(listing) :
                              FolderPasses(listing[k], match, check_version)})
         IN  IF i = 0 THEN None ELSE Some(listing[i].name)

LocalMetallibInstalled(obj, root, match, check_version) ==
    IF obj.ignore_installed THEN None
    ELSE IF root = NoDir THEN None
    ELSE LET listing == root[1]
             i == FirstOf({k \in 1..Len(listing) :
                              FolderPasses(listing[k], match, check_version)})
         IN  IF i = 0 THEN None ELSE Some(listing[i].name)

\* whether the call looks at the filesystem at all
ProbesFilesystem(obj) == ~obj.ignore_installed

(* ------------------------- _get_latest_metallib ------------------------ *)
\* the gate of line 112 comparing against the generation before sequoia
RequiresMetallibSinceSonoma(host_version) ==
    ~(os_to_kernel(Major(host_version)) < sequoia - 1)

RequiresMetallib(host_version) == ~(os_to_kernel(Major(host_version)) < sequoia)

\* lines 130-137: the first entry of the manifest with the host's build
ExactIndex(manifest, host_build) ==
    FirstOf({i \in 1..Len(manifest) : manifest[i].build = host_build})

\* the closest-match filter without the check of the major (line 149 lost)
EligibleAnyMajor(entry, host_version) ==
    ~VersionGT(entry.version, host_version)

\* lines 147-150: the two filters of the closest-match loop
Eligible(entry, host_version) ==
    /\ ~VersionGT(entry.version, host_version)
    /\ ~(Major(entry.version) # Major(host_version))

\* the closest-match loop without its break: the last passing entry wins
ClosestIndexNoBreak(manifest, host_version) ==
    LET S == {i \in 1..Len(manifest) : Eligible(manifest[i], host_version)}
    IN  IF S = {} THEN 0 ELSE CHOOSE i \in S : \A j \in S : j <= i

\* lines 141-155: the first entry of the manifest passing both filters
ClosestIndex(manifest, host_version) ==
    FirstOf({i \in 1..Len(manifest) : Eligible(manifest[i], host_version)})

\* lines 130-171: the resolver proper, on a manifest that was obtained
Resolve(obj, manifest) ==
    LET e == ExactIndex(manifest, obj.host_build)
        afterExact ==
            IF e = 0 THEN obj
            ELSE [obj EXCEPT !.metallib_url = manifest[e].url,
                             !.metallib_url_build = manifest[e].build,
                             !.metallib_url_version = manifest[e].version,
                             !.metallib_url_is_exactly_match = TRUE]
        c == ClosestIndex(manifest, obj.host_version)
        afterClosest ==
            IF c = 0 THEN afterExact
            ELSE [afterExact EXCEPT
                     !.metallib_closest_match_url = manifest[c].url,
                     !.metallib_closest_match_url_build = manifest[c].build,
                     !.metallib_closest_match_url_version = manifest[c].version]
    IN  IF afterExact.metallib_url # ""
        THEN [afterExact EXCEPT !.success = TRUE]
        ELSE IF afterClosest.metallib_closest_match_url = ""
        THEN [afterClosest EXCEPT
                 !.error_msg = <<"No suitable metallib found for", obj.host_build>>]
        ELSE [afterClosest EXCEPT
                 !.metallib_url = afterClosest.metallib_closest_match_url,
                 !.metallib_url_build = afterClosest.metallib_closest_match_url_build,
                 !.metallib_url_version = afterClosest.metallib_closest_match_url_version,
                 !.success = TRUE]

\* the whole method: the object, the cache, and what it touched on the way
GetLatestMetallib(obj, list, root, outcome, body) ==
    IF ~RequiresMetallib(obj.host_version)
    THEN [self |-> [obj EXCEPT !.success = TRUE],
          list |-> list, requests |-> 0, probes |-> 0, raised |-> FALSE]
    ELSE
    LET path == LocalMetallibInstalled(obj, root, None, FALSE)
        probes == IF ProbesFilesystem(obj) THEN 1 ELSE 0
        probed == [obj EXCEPT !.metallib_installed_path = path]
        remote == GetRemoteMetallibs(list, outcome, body)
    IN  IF path # None /\ path[1] # <<>>
        THEN [self |-> [probed EXCEPT !.metallib_already_installed = TRUE,
                                      !.success = TRUE],
              list |-> list, requests |-> 0, probes |-> probes, raised |-> FALSE]
        ELSE IF remote.raised
        THEN [self |-> probed, list |-> remote.list, requests |-> remote.requests,
              probes |-> probes, raised |-> TRUE]
        ELSE IF remote.ret = None
        THEN [self |-> [probed EXCEPT
                           !.error_msg = <<"Failed to fetch Metallib manifest">>],
              list |-> remote.list, requests |-> remote.requests, probes |-> probes,
              raised |-> FALSE]
        ELSE [self |-> Resolve(probed, remote.ret[1]),
              list |-> remote.list, requests |-> remote.requests, probes |-> probes,
              raised |-> FALSE]

\* the constructor with a guard that tests installer_environment only
InitInstallerOnly(installer, recovery, host_build, host_version, ignore_installed, passive, list, root, outcome, body) ==
    LET obj == NewObject(installer, recovery, host_build, host_version,
                         ignore_installed, passive)
    IN  IF obj.installer_environment
        THEN [self |-> [obj EXCEPT !.success = TRUE],
              list |-> list, requests |-> 0, probes |-> 0, raised |-> FALSE]
        ELSE GetLatestMetallib(obj, list, root, outcome, body)

\* lines 27-66: the constructor
Init__(installer, recovery, host_build, host_version, ignore_installed, passive, list, root, outcome, body) ==
    LET obj == NewObject(installer, recovery, host_build, host_version,
                         ignore_installed, passive)
    IN  IF obj.installer_environment \/ obj.recovery_environment
        THEN [self |-> [obj EXCEPT !.success = TRUE],
              list |-> list, requests |-> 0, probes |-> 0, raised |-> FALSE]
        ELSE GetLatestMetallib(obj, list, root, outcome, body)

\* retrieve_download ignoring override_path (lines 208-212 lost)
RetrieveDownloadDefaultPath(obj, override_path) ==
    IF obj.metallib_already_installed \/ obj.metallib_url = ""
    THEN None
    ELSE Some([url |-> obj.metallib_url, path |-> metallib_download_path])

\* retrieve_download testing only metallib_already_installed (line 205)
RetrieveDownloadUrlUnchecked(obj, override_path) ==
    IF obj.metallib_already_installed
    THEN None
    ELSE Some([url |-> obj.metallib_url,
               path |-> IF override_path = "" THEN metallib_download_path
                        ELSE override_path])

(* --------------------------- retrieve_download ------------------------- *)
RetrieveDownloadResult(obj, override_path) ==
    IF obj.metallib_already_installed \/ obj.metallib_url = ""
    THEN None
    ELSE Some([url |-> obj.metallib_url,
               path |-> IF override_path = "" THEN metallib_download_path
                        ELSE override_path])

\* the object as retrieve_download leaves it: the method assigns no field
AfterRetrieveDownload(obj, override_path) == obj

(* ---------------------------- install_metallib ------------------------- *)
\* install_metallib without the passive return of lines 222-224
RunsInstallerWhenPassive(obj) ==
    ~(~obj.success \/ obj.metallib_already_installed)

\* line 226 without the test of metallib_already_installed
RunsInstallerWhenInstalled(obj) ==
    /\ ~obj.passive
    /\ obj.success

\* whether the call gets as far as running /usr/sbin/installer (line 229)
RunsInstaller(obj) ==
    /\ ~obj.passive
    /\ ~(~obj.success \/ obj.metallib_already_installed)

InstallerPkg(metallib) ==
    IF metallib # None /\ metallib[1] # "" THEN metallib[1] ELSE metallib_download_path

\* install_metallib without the returncode test of lines 241-243
InstallMetallibResultUnchecked(obj, metallib, returncode) ==
    IF ~RunsInstaller(obj)
    THEN [ret |-> TRUE, pkg |-> None]
    ELSE [ret |-> TRUE, pkg |-> Some(InstallerPkg(metallib))]

InstallMetallibResult(obj, metallib, returncode) ==
    IF ~RunsInstaller(obj)
    THEN [ret |-> TRUE, pkg |-> None]
    ELSE [ret |-> ~(returncode # 0), pkg |-> Some(InstallerPkg(metallib))]

\* an install_metallib that records a successful run on the object
AfterInstallMetallibMarksInstalled(obj, metallib, returncode) ==
    IF RunsInstaller(obj) /\ returncode = 0
    THEN [obj EXCEPT !.metallib_already_installed = TRUE]
    ELSE obj

\* the object as install_metallib leaves it: the method assigns no field
AfterInstallMetallib(obj, metallib, returncode) == obj

(* ------------------------------- state --------------------------------- *)
VARIABLES
    constants,             \* the process's Constants: the environment flags
    METALLIB_ASSET_LIST,   \* the module-level manifest cache
    install_root,          \* METALLIB_INSTALL_PATH on disk
    constructed,           \* whether an object has been built yet
    self,                  \* the fields of the object built last
    http_requests,         \* GETs sent to METALLIB_API_LINK by this process
    install_calls,         \* install_metallib calls made on self
    installer_runs,        \* /usr/sbin/installer invocations made by self
    last_call              \* the call made last and what it did and returned

vars == <<constants, METALLIB_ASSET_LIST, install_root, constructed, self, http_requests,
          install_calls, installer_runs, last_call>>

NoCall ==
    [op |-> "none", requests |-> 0, probes |-> 0, list_before |-> None,
     download |-> None, returned |-> TRUE, pkg |-> None, returncode |-> 0,
     arg |-> "", metallib |-> None, outcome |-> "unsent", raised |-> FALSE]

Init ==
    /\ constants \in [installer_environment : BOOLEAN, recovery_environment : BOOLEAN]
    /\ METALLIB_ASSET_LIST = None
    /\ install_root \in InstallRoots
    /\ constructed = FALSE
    /\ self = NewObject(FALSE, FALSE, "24A335", <<15, 1>>, FALSE, FALSE)
    /\ http_requests = 0
    /\ install_calls = 0
    /\ installer_runs = 0
    /\ last_call = NoCall

\* whether building this object sends the manifest GET
SendsRequest(host_build, host_version, ignore_installed, passive) ==
    Init__(constants.installer_environment, constants.recovery_environment, host_build, host_version, ignore_installed, passive,
           METALLIB_ASSET_LIST, install_root, "200", <<>>).requests = 1

\* MetalLibraryObject(constants, ...): a caller builds an object on the
\* process's Constants; the network answers the GET, when one is sent, with
\* one of the responses
ConstructWith(responses) ==
    \E host_build \in HostBuilds, host_version \in HostVersions,
       ignore_installed \in BOOLEAN, passive \in BOOLEAN :
      \E response \in
            IF SendsRequest(host_build, host_version, ignore_installed, passive)
            THEN responses ELSE {NoResponse} :
        \E r \in {Init__(constants.installer_environment,
                         constants.recovery_environment, host_build, host_version,
                         ignore_installed, passive, METALLIB_ASSET_LIST,
                         install_root, response.outcome, response.body)} :
            /\ http_requests + r.requests <= MaxRequests
            /\ IF r.raised
               THEN \* the caller gets the exception and no object
                    UNCHANGED <<self, constructed, install_calls, installer_runs>>
               ELSE /\ self' = r.self
                    /\ constructed' = TRUE
                    /\ install_calls' = 0
                    /\ installer_runs' = 0
            /\ METALLIB_ASSET_LIST' = r.list
            /\ http_requests' = http_requests + r.requests
            /\ last_call' = [NoCall EXCEPT !.op = "__init__",
                                           !.requests = r.requests,
                                           !.probes = r.probes,
                                           !.list_before = METALLIB_ASSET_LIST,
                                           !.outcome = response.outcome,
                                           !.raised = r.raised]
            /\ UNCHANGED <<constants, install_root>>

\* any construction of the process, against a server with a short manifest
Construct == ConstructWith(ShortResponses)

\* the first construction of the process, against any manifest
ConstructFirst == ~constructed /\ ConstructWith(Responses)

\* self.retrieve_download(override_path)
RetrieveDownload ==
    /\ constructed
    /\ \E override_path \in OverridePaths :
         /\ last_call' = [NoCall EXCEPT !.op = "retrieve_download",
                                        !.arg = override_path,
                                        !.download = RetrieveDownloadResult(self, override_path)]
         /\ self' = AfterRetrieveDownload(self, override_path)
    /\ UNCHANGED <<constants, METALLIB_ASSET_LIST, install_root, constructed,
                   http_requests, install_calls, installer_runs>>

\* self.install_metallib(metallib); returncode is the installer's exit status
InstallMetallib ==
    /\ constructed
    /\ install_calls < MaxInstallCalls
    /\ \E metallib \in InstallArgs :
       \E returncode \in IF RunsInstaller(self) THEN ExitCodes ELSE {0} :
         LET r == InstallMetallibResult(self, metallib, returncode)
         IN  /\ install_calls' = install_calls + 1
             /\ installer_runs' = installer_runs + (IF r.pkg # None THEN 1 ELSE 0)
             /\ last_call' = [NoCall EXCEPT !.op = "install_metallib",
                                            !.metallib = metallib,
                                            !.returned = r.ret,
                                            !.pkg = r.pkg,
                                            !.returncode = returncode]
             /\ self' = AfterInstallMetallib(self, metallib, returncode)
    /\ UNCHANGED <<constants, METALLIB_ASSET_LIST, install_root, constructed,
                   http_requests>>

Next == Construct \/ RetrieveDownload \/ InstallMetallib

\* a process that builds objects one after another and calls them
Spec == Init /\ [][Next]_vars

\* a process that builds one object, against any manifest, and calls it
NextFirst == ConstructFirst \/ RetrieveDownload \/ InstallMetallib

SpecFirst == Init /\ [][NextFirst]_vars

(* ====================== properties of the resolver ===================== *)
\* the manifest the object built last was resolved against
UsedManifest == IF METALLIB_ASSET_LIST = None THEN <<>> ELSE METALLIB_ASSET_LIST[1]
EnvironmentExcluded == self.installer_environment \/ self.recovery_environment
GenerationBelowThreshold == os_to_kernel(Major(self.host_version)) < sequoia
FetchFailed == self.error_msg = <<"Failed to fetch Metallib manifest">>

\* the construction got as far as the exact-match loop (line 130)
ReachedResolver ==
    /\ constructed
    /\ ~EnvironmentExcluded
    /\ ~GenerationBelowThreshold
    /\ ~self.metallib_already_installed
    /\ ~FetchFailed

HasHostBuild(i) == UsedManifest[i].build = self.host_build
NoExactBuild == \A i \in 1..Len(UsedManifest) : ~HasHostBuild(i)
\* version <= host version and same major, as the data model states it
WithinBounds(i) ==
    /\ VersionLE(UsedManifest[i].version, self.host_version)
    /\ Major(UsedManifest[i].version) = Major(self.host_version)
Selected(i) ==
    /\ self.metallib_url = UsedManifest[i].url
    /\ self.metallib_url_build = UsedManifest[i].build
    /\ self.metallib_url_version = UsedManifest[i].version
NothingSelected ==
    /\ self.metallib_url = ""
    /\ self.metallib_url_build = ""
    /\ self.metallib_url_version = <<>>
NewestFirst ==
    \A i, j \in 1..Len(UsedManifest) :
        i < j => VersionLE(UsedManifest[j].version, UsedManifest[i].version)

\* C1: whenever the manifest has an entry with the host's build, a resolution
\* that reaches the resolver selects such an entry (url, build, version) and
\* sets metallib_url_is_exactly_match.
C1_ExactMatchPriority ==
    (ReachedResolver /\ ~NoExactBuild) =>
        /\ self.metallib_url_is_exactly_match
        /\ \E i \in 1..Len(UsedManifest) : HasHostBuild(i) /\ Selected(i)

\* C2: with no entry of the host's build, the entry a successful resolution
\* selects is the first one in manifest order with version <= host version
\* and the host's major, and metallib_url_is_exactly_match stays false.
C2_ClosestIsFirstWithinBounds ==
    (ReachedResolver /\ NoExactBuild /\ self.success) =>
        /\ ~self.metallib_url_is_exactly_match
        /\ \E i \in 1..Len(UsedManifest) :
              /\ WithinBounds(i)
              /\ \A j \in 1..(i - 1) : ~WithinBounds(j)
              /\ Selected(i)

C2_Witness ==
    /\ ReachedResolver /\ NoExactBuild /\ self.success
    /\ Len(UsedManifest) = 2
    /\ ~WithinBounds(1)
    /\ Selected(2)
    /\ Major(UsedManifest[1].version) # Major(UsedManifest[2].version)
         \/ VersionGT(UsedManifest[1].version, self.host_version)

\* C3 as stated: with no entry of the host's build, the selected entry has the
\* highest version among the entries with version <= host version and the
\* host's major.
C3_ClosestIsHighest ==
    (ReachedResolver /\ NoExactBuild /\ self.success) =>
        \A j \in 1..Len(UsedManifest) :
            WithinBounds(j) => VersionLE(UsedManifest[j].version, self.metallib_url_version)

\* C3 amended: when the manifest lists its entries newest first, the selected
\* closest match has the highest version among the entries within bounds.
C3_HighestWhenNewestFirst ==
    (ReachedResolver /\ NoExactBuild /\ self.success /\ NewestFirst) =>
        \A j \in 1..Len(UsedManifest) :
            WithinBounds(j) => VersionLE(UsedManifest[j].version, self.metallib_url_version)

C3_Witness ==
    /\ ReachedResolver /\ NoExactBuild /\ self.success /\ NewestFirst
    /\ Len(UsedManifest) = 2
    /\ WithinBounds(1) /\ WithinBounds(2)
    /\ VersionGT(UsedManifest[1].version, UsedManifest[2].version)
    /\ self.metallib_url_version = UsedManifest[1].version

\* C4: with no entry of the host's build and no entry within bounds, the
\* resolution fails with the "no suitable" message naming the host build,
\* selects nothing, and retrieve_download returns None.
C4_NoMatchIsError ==
    (ReachedResolver /\ NoExactBuild
        /\ \A i \in 1..Len(UsedManifest) : ~WithinBounds(i)) =>
        /\ ~self.success
        /\ self.error_msg = <<"No suitable metallib found for", self.host_build>>
        /\ NothingSelected
        /\ ~self.metallib_url_is_exactly_match
        /\ last_call.op = "retrieve_download" => last_call.download = None

C4_Witness ==
    /\ ReachedResolver /\ NoExactBuild
    /\ Len(UsedManifest) = 2
    /\ \A i \in 1..Len(UsedManifest) :
          ~WithinBounds(i) /\ UsedManifest[i].url # ""
    /\ Major(UsedManifest[1].version) # Major(self.host_version)
    /\ last_call.op = "retrieve_download"
    /\ last_call.arg # ""

(* ======================= properties of the object ====================== *)
\* the call made last is a constructor that returned an object
JustBuilt == constructed /\ last_call.op = "__init__" /\ ~last_call.raised
\* the install directory holds at least one subdirectory
DirectoryInstalled ==
    /\ install_root # NoDir
    /\ \E k \in 1..Len(install_root[1]) : install_root[1][k].is_dir
\* C5: an object built under installer_environment or recovery_environment
\* reports success, and building it sends no GET, does not look at the install
\* directory and leaves METALLIB_ASSET_LIST as it was.
C5_EnvironmentGuard ==
    (JustBuilt /\ EnvironmentExcluded) =>
        /\ self.success
        /\ last_call.requests = 0
        /\ last_call.probes = 0
        /\ METALLIB_ASSET_LIST = last_call.list_before

C5_Witness ==
    /\ JustBuilt
    /\ self.recovery_environment /\ ~self.installer_environment
    /\ ~GenerationBelowThreshold
    /\ ~self.ignore_installed
    /\ DirectoryInstalled
    /\ METALLIB_ASSET_LIST = None

\* C6: outside installer/recovery, a host whose generation is below the
\* threshold gets success and building its object sends no GET, whatever the
\* cache and the install directory hold.
C6_OsRequirementGate ==
    (JustBuilt /\ ~EnvironmentExcluded /\ GenerationBelowThreshold) =>
        /\ self.success
        /\ self.error_msg = <<>>
        /\ last_call.requests = 0
        /\ METALLIB_ASSET_LIST = last_call.list_before

C6_Witness ==
    /\ JustBuilt /\ ~EnvironmentExcluded /\ GenerationBelowThreshold
    /\ METALLIB_ASSET_LIST = None
    /\ ~DirectoryInstalled
    /\ http_requests = 1

\* C7: on an object whose resolution selected no entry, a non-passive
\* install_metallib call runs the installer zero times and returns True.
C7_NoInstallWithoutEntry ==
    (constructed /\ last_call.op = "install_metallib"
        /\ ~self.passive /\ self.metallib_url = "") =>
        /\ installer_runs = 0
        /\ last_call.returned

\* C8: over any sequence of constructions, a process sends at most one GET
\* to the manifest endpoint.
C8_AtMostOneRequest == http_requests <= 1

\* C9: with ignore_installed false, a generation at or above the threshold and
\* a subdirectory in the install directory, the object reports success and
\* metallib_already_installed with the subdirectory as installed path, sends
\* no GET, selects no entry, and retrieve_download returns None.
C9_AlreadyInstalled ==
    (constructed /\ ~EnvironmentExcluded /\ ~GenerationBelowThreshold
        /\ ~self.ignore_installed /\ DirectoryInstalled) =>
        /\ self.success
        /\ self.metallib_already_installed
        /\ self.metallib_installed_path # None
        /\ \E k \in 1..Len(install_root[1]) :
              /\ install_root[1][k].is_dir
              /\ self.metallib_installed_path = Some(install_root[1][k].name)
        /\ NothingSelected
        /\ self.error_msg = <<>>
        /\ JustBuilt => last_call.requests = 0
        /\ last_call.op = "retrieve_download" => last_call.download = None

C9_Witness ==
    /\ constructed /\ ~EnvironmentExcluded /\ ~GenerationBelowThreshold
    /\ ~self.ignore_installed /\ DirectoryInstalled
    /\ ~install_root[1][1].is_dir
    /\ METALLIB_ASSET_LIST = None
    /\ last_call.op = "retrieve_download"
    /\ last_call.arg # ""

\* C10: on an object whose resolution did not succeed or whose artifact is
\* already installed, every install_metallib call returns True and the
\* installer has run zero times, however many calls were made.
C10_InstallNoOp ==
    (constructed /\ last_call.op = "install_metallib"
        /\ (~self.success \/ self.metallib_already_installed)) =>
        /\ last_call.returned
        /\ last_call.pkg = None
        /\ installer_runs = 0

C10_Witness ==
    /\ constructed /\ last_call.op = "install_metallib"
    /\ self.metallib_already_installed
    /\ ~self.passive
    /\ install_calls = MaxInstallCalls
    /\ installer_runs = 0

\* C11: on an object built with passive = True, whatever its resolution and
\* whatever path is passed, install_metallib never runs the installer and
\* returns True.
C11_PassiveNeverInstalls ==
    (constructed /\ self.passive) =>
        /\ installer_runs = 0
        /\ last_call.op = "install_metallib" =>
              last_call.returned /\ last_call.pkg = None

C11_Witness ==
    /\ constructed /\ self.passive
    /\ self.success /\ self.metallib_url # "" /\ ~self.metallib_already_installed
    /\ last_call.op = "install_metallib"
    /\ last_call.metallib # None
    /\ install_calls = MaxInstallCalls

\* C12: a construction whose GET ends in Timeout, TooManyRedirects,
\* ConnectionError or a status other than 200 returns an object (nothing is
\* raised) with success False, a non-empty error_msg and no entry selected,
\* and leaves the cache as it was, without a manifest; retrieve_download on
\* that object returns None.
C12_TransportFailureReported ==
    /\ (last_call.op = "__init__" /\ last_call.outcome \in FailedOutcomes) =>
          /\ ~last_call.raised
          /\ constructed
          /\ ~self.success
          /\ self.error_msg # <<>>
          /\ NothingSelected
          /\ ~self.metallib_url_is_exactly_match
          /\ METALLIB_ASSET_LIST = last_call.list_before
          /\ METALLIB_ASSET_LIST = None \/ METALLIB_ASSET_LIST = Some(<<>>)
    /\ (constructed /\ FetchFailed /\ last_call.op = "retrieve_download") =>
          last_call.download = None

C12_Witness ==
    /\ constructed /\ FetchFailed
    /\ http_requests = 1
    /\ METALLIB_ASSET_LIST = None
    /\ last_call.op = "retrieve_download"
    /\ last_call.arg # ""

\* the resolution succeeded on a manifest entry
EntryResolved == self.success /\ self.metallib_url # ""

\* C13: retrieve_download returns None when the artifact is already installed
\* or no entry was resolved (in particular whenever success is False), and
\* otherwise a descriptor with the selected entry's url and, as destination,
\* override_path when given and metallib_download_path when not.
C13_DownloadDescriptor ==
    (constructed /\ last_call.op = "retrieve_download") =>
        /\ (last_call.download # None) <=>
              (EntryResolved /\ ~self.metallib_already_installed)
        /\ ~self.success => last_call.download = None
        /\ last_call.download # None =>
              /\ last_call.download[1].url = self.metallib_url
              /\ \E i \in 1..Len(UsedManifest) : Selected(i)
              /\ last_call.download[1].path =
                    (IF last_call.arg = "" THEN "metallib_download_path"
                     ELSE last_call.arg)

C13_Witness ==
    /\ constructed /\ last_call.op = "retrieve_download"
    /\ last_call.download # None
    /\ last_call.arg # ""
    /\ Len(UsedManifest) = 2 /\ Selected(2) /\ ~Selected(1)

\* C14: on a non-passive object that resolved an entry and is not already
\* installed, every install_metallib call runs the installer once, on the
\* given path or on metallib_download_path when none is given, and returns
\* True exactly when the installer's returncode is 0.
C14_InstallOutcome ==
    (constructed /\ ~self.passive /\ EntryResolved
        /\ ~self.metallib_already_installed) =>
        /\ installer_runs = install_calls
        /\ last_call.op = "install_metallib" =>
              /\ last_call.pkg =
                    (IF last_call.metallib = None
                     THEN Some("metallib_download_path")
                     ELSE last_call.metallib)
              /\ last_call.returned <=> (last_call.returncode = 0)

C14_Witness ==
    /\ constructed /\ ~self.passive /\ EntryResolved
    /\ ~self.metallib_already_installed
    /\ last_call.op = "install_metallib"
    /\ install_calls = MaxInstallCalls /\ installer_runs = MaxInstallCalls
    /\ last_call.metallib # None
    /\ last_call.returncode # 0 /\ ~last_call.returned

\* C15: metallib_url_is_exactly_match is True only if an entry is selected
\* and the selected entry's build is the host's build.
C15_ExactFlagMeansExactBuild ==
    (constructed /\ self.metallib_url_is_exactly_match) =>
        /\ EntryResolved
        /\ self.metallib_url_build = self.host_build
        /\ \E i \in 1..Len(UsedManifest) : HasHostBuild(i) /\ Selected(i)

\* C16: metallib_already_installed is True only if the install directory has
\* a subdirectory whose name ends with "-" and the host's build.
C16_InstalledMeansHostBuild ==
    (constructed /\ self.metallib_already_installed) =>
        /\ install_root # NoDir
        /\ \E k \in 1..Len(install_root[1]) :
              /\ install_root[1][k].is_dir
              /\ Len(install_root[1][k].name) >= 2
              /\ install_root[1][k].name[Len(install_root[1][k].name)] = self.host_build

\* C17: once a 200 response has been stored in METALLIB_ASSET_LIST (an empty
\* manifest included), no later construction sends a GET, and the cache keeps
\* the manifest it holds.
C17_CacheHitAvoidsNetwork ==
    [][METALLIB_ASSET_LIST # None =>
          /\ http_requests' = http_requests
          /\ METALLIB_ASSET_LIST' = METALLIB_ASSET_LIST]_vars

\* the five outcomes, as the result fields show them
NotRequiredOutcome ==
    /\ self.success /\ ~self.metallib_already_installed
    /\ self.metallib_url = "" /\ self.error_msg = <<>>
AlreadyInstalledOutcome == self.metallib_already_installed
ExactMatchOutcome ==
    self.success /\ self.metallib_url # "" /\ self.metallib_url_is_exactly_match
ClosestMatchOutcome ==
    self.success /\ self.metallib_url # "" /\ self.metallib_closest_match_url # ""
ErrorOutcome == self.error_msg # <<>>
OutcomesHolding ==
    {o \in {"not-required", "already-installed", "exact-match", "closest-match",
            "unresolved-error"} :
        \/ o = "not-required" /\ NotRequiredOutcome
        \/ o = "already-installed" /\ AlreadyInstalledOutcome
        \/ o = "exact-match" /\ ExactMatchOutcome
        \/ o = "closest-match" /\ ClosestMatchOutcome
        \/ o = "unresolved-error" /\ ErrorOutcome}

\* C18: after construction exactly one of the five outcomes holds: no
\* error_msg together with success or a selected url, no
\* metallib_url_is_exactly_match together with the error or the closest-match
\* outcome, no metallib_already_installed together with a selected url.
C18_ExactlyOneOutcome ==
    constructed =>
        /\ Cardinality(OutcomesHolding) = 1
        /\ ErrorOutcome => ~self.success /\ self.metallib_url = ""
        /\ self.metallib_url_is_exactly_match =>
              ~ErrorOutcome /\ ~ClosestMatchOutcome
        /\ self.metallib_already_installed => self.metallib_url = ""

\* the fields of the resolution result
ResultOf(obj) ==
    <<obj.success, obj.metallib_already_installed, obj.metallib_installed_path,
      obj.metallib_url, obj.metallib_url_build, obj.metallib_url_version,
      obj.metallib_url_is_exactly_match, obj.error_msg>>

\* C19: every call of retrieve_download and of install_metallib, passive or
\* not and whatever the installer's exit status, leaves the result fields of
\* the object and the manifest cache as they were; a successful install does
\* not set metallib_already_installed.
C19_ResultImmutable ==
    [][last_call'.op \in {"retrieve_download", "install_metallib"} =>
          /\ ResultOf(self') = ResultOf(self)
          /\ METALLIB_ASSET_LIST' = METALLIB_ASSET_LIST]_vars

\* the installer ran for a resolved entry and exited with 0
C19_Witness ==
    /\ last_call.op = "install_metallib"
    /\ last_call.pkg # None
    /\ last_call.returncode = 0
    /\ self.success
    /\ ~self.metallib_already_installed
    /\ METALLIB_ASSET_LIST # None

====
